---- MODULE Spec2Model ----
(***************************************************************************)
(* Price tracking of GameBot: GameService.updatePrice, the scheduled sweep *)
(* NotificationService.checkPricesAndNotify driven by the setInterval      *)
(* timer of GameBot.setupPriceChecking, and the /check_prices command.     *)
(* Also GameService.addGame and removeGame, the notification settings set   *)
(* and removed by commands, and SteamParser from price markup to GamePrice. *)
(* Every await of a handler is one atomic step; handlers interleave at     *)
(* their awaits, as they do on the Node.js event loop.                     *)
(***************************************************************************)
EXTENDS Integers, Sequences, FiniteSets, TLC

\* ---- bounds of the model ------------------------------------------------
NumGames == 2
NumDests == 3
\* timer callbacks that can be in progress at once
MaxSweeps == 2
\* budgets of the runs in which one game is swept again and again
MaxTimerFires == 3
MaxPageChanges == 2
\* budgets of the other runs
MaxCmdRuns == 1
FewTimerFires == 2
FewPageChanges == 1
MaxRemovals == 1

GameIds == 1..NumGames
Dests == 1..NumDests
SweepIds == 1..MaxSweeps

\* ---- numbers as JavaScript sees them ------------------------------------
\* parseFloat never yields a negative number (the sign is stripped), so the
\* negative integers are free to stand for NaN and undefined.
NaN == -1
Undefined == -2

IsNum(x) == x >= 0
\* a < b, a >= b and !a of JavaScript: every comparison with NaN is false.
Lt(a, b) == IsNum(a) /\ IsNum(b) /\ a < b
Ge(a, b) == IsNum(a) /\ IsNum(b) /\ a >= b
Falsy(x) == x = 0 \/ x = NaN

\* ---- what a product page can show -----------------------------------------
\* GamePrice, the result of SteamParser.processPrices on a page: a plain
\* price, or the list price struck out for a lower one.
PlainPrices == {0, 80, 100}
SalePrices == {60, 80}

Plain(b) == [basePrice |-> b, discount |-> Undefined]
Sale(b, d) == [basePrice |-> b, discount |-> d]

ValidPages == {Plain(b) : b \in PlainPrices} \cup {Sale(100, d) : d \in SalePrices}

\* price markup that parseFloat cannot read
MalformedPages == {Plain(NaN), Sale(NaN, 80)}

Pages == ValidPages \cup MalformedPages

NoInfo == [basePrice |-> Undefined, discount |-> Undefined]

\* ---- SteamParser: from markup to GamePrice ---------------------------------
\* longest text of a price element
MaxLen == 3

DigitSeq == <<"0", "1", "2", "3", "4", "5", "6", "7", "8", "9">>
DigitChars == {DigitSeq[k] : k \in 1..Len(DigitSeq)}
\* what the texts of a price element are drawn from: two digits, the two
\* separators, and a character the regular expression removes
Chars == {"0", "1", ".", ",", "-"}

\* the texts of at most len characters
Texts(len) == UNION {[1..n -> Chars] : n \in 0..len}

\* A number with a fraction is kept in units of 10^-MaxLen, which holds every
\* digit a text of MaxLen characters can have behind the point.
Scale == 10 ^ MaxLen

DigitVal(c) == (CHOOSE k \in 1..Len(DigitSeq) : DigitSeq[k] = c) - 1

\* the value of a run of digits
RECURSIVE DigitsVal(_)
DigitsVal(ds) ==
  IF Len(ds) = 0 THEN 0
  ELSE 10 * DigitsVal(SubSeq(ds, 1, Len(ds) - 1)) + DigitVal(ds[Len(ds)])

\* the longest run of digits of str that starts at position from
RECURSIVE DigitRun(_, _)
DigitRun(str, from) ==
  IF from <= Len(str) /\ str[from] \in DigitChars
  THEN <<str[from]>> \o DigitRun(str, from + 1)
  ELSE <<>>

\* StripOthers that removes nothing.
StripNothing(str) == str

\* priceString.replace(/[^0-9.,]/g, '')
StripOthers(str) == SelectSeq(str, LAMBDA c : c \in DigitChars \cup {".", ","})

\* .replace(',', '.'): a string pattern replaces the first occurrence only
ReplaceFirstComma(str) ==
  LET commas == {k \in 1..Len(str) : str[k] = ","} IN
    IF commas = {} THEN str
    ELSE LET first == CHOOSE k \in commas : \A j \in commas : k <= j
         IN  [k \in 1..Len(str) |-> IF k = first THEN "." ELSE str[k]]

\* parseFloat on a text of digits, points and commas: the longest prefix that
\* reads as a decimal number, NaN when that prefix has no digit.
parseFloat(str) ==
  LET int  == DigitRun(str, 1)
      frac == IF Len(int) < Len(str) /\ str[Len(int) + 1] = "."
              THEN DigitRun(str, Len(int) + 2)
              ELSE <<>>
  IN  IF Len(int) = 0 /\ Len(frac) = 0 THEN NaN
      ELSE DigitsVal(int) * Scale + DigitsVal(frac) * 10 ^ (MaxLen - Len(frac))

priceStringToNumber(priceString) ==
  parseFloat(ReplaceFirstComma(StripOthers(priceString)))

\* The price markup of a page: whether there is a .discount_prices block, the
\* texts of its .discount_original_price and .discount_final_price, and the
\* text of .game_purchase_price. An element that is not there has text ''.
DiscountMarkup(o, f) ==
  [discounted |-> TRUE, original |-> o, final |-> f, purchase |-> <<>>]
PlainMarkup(t) ==
  [discounted |-> FALSE, original |-> <<>>, final |-> <<>>, purchase |-> t]

Markups(len) == {DiscountMarkup(o, f) : o \in Texts(len), f \in Texts(len)}
                \cup {PlainMarkup(t) : t \in Texts(len)}

\* How the store writes a price of n roubles in the rouble region: groups of
\* three digits set apart by a space, a decimal comma, two digits of kopecks,
\* a space and the rouble sign, for which "P" stands.
MaxHundreds == 25
NumUsers == 2
MaxFlows == 2
MaxAddCalls == 2

\* the list prices of the store: 99, 199, ... roubles
StorePrices == {k * 100 - 1 : k \in 1..MaxHundreds}

RECURSIVE DigitsOf(_)
DigitsOf(n) ==
  IF n < 10 THEN <<DigitSeq[n + 1]>>
  ELSE DigitsOf(n \div 10) \o <<DigitSeq[(n % 10) + 1]>>

ThreeDigits(n) ==
  <<DigitSeq[(n \div 100) + 1], DigitSeq[((n \div 10) % 10) + 1], DigitSeq[(n % 10) + 1]>>

RECURSIVE Grouped(_)
Grouped(n) ==
  IF n < 1000 THEN DigitsOf(n)
  ELSE Grouped(n \div 1000) \o <<" ">> \o ThreeDigits(n % 1000)

StoreText(n) == Grouped(n) \o <<",", "0", "0", " ", "P">>

StoreMarkups ==
  UNION {{DiscountMarkup(StoreText(b), StoreText(d)) :
            d \in {x \in StorePrices : x < b}} : b \in StorePrices}
  \cup {PlainMarkup(StoreText(b)) : b \in StorePrices}

processPrices(m) ==
  IF m.discounted
  THEN [basePrice |-> priceStringToNumber(m.original),
        discount |-> priceStringToNumber(m.final)]
  ELSE [basePrice |-> priceStringToNumber(m.purchase), discount |-> Undefined]

\* priceInfo.discount ?? priceInfo.basePrice
Effective(o) == IF o.discount # Undefined THEN o.discount ELSE o.basePrice

Revisions == {"plain", "fallback"}

VARIABLES
  rev,          \* which revision of GameService.updatePrice is deployed
  games,        \* table Game: id -> row
  page,         \* the store page of each game as the parser reads it now
  settings,     \* table NotificationSettings, in row order
  sweep,        \* the executions of checkPricesAndNotify in progress
  cmd,          \* the execution of handleCheckPrices in progress
  delivered,    \* messages the transport accepted, per game and destination
  shown,        \* the last readable effective price on the page of each game
  drops,        \* how often the page's effective price of a game went down
  log,          \* per game, the refreshes that wrote its row, oldest first
  timerFires,
  cmdRuns,
  pageChanges,
  removals,
  markup,       \* the price markup of a page handed to the parser
  parsed,       \* what the parser returned for it
  session,      \* ctx.session of the chat the add-game conversation runs in
  addCalls,     \* the calls of gameService.addGame by the bot, oldest first
  flows         \* the users whose /add began a conversation, oldest first

vars == <<rev, games, page, shown, settings, sweep, cmd, delivered, drops, log,
          timerFires, cmdRuns, pageChanges, removals, markup, parsed,
          session, addCalls, flows>>

\* new Date(): time is read at the grain of handler starts.
now == timerFires + cmdRuns

\* The row of NotificationSettings of destination d. setNotificationThread
\* creates rows of a group with a thread id; the odd destinations are such
\* rows. The even ones are rows as the schema defaults leave them, not a group
\* and without a thread id: no command of the bot creates or deletes them.
Setting(d) ==
  [chatId |-> d,
   isGroup |-> (d % 2 = 1),
   threadId |-> IF d % 2 = 1 THEN d ELSE Undefined]

Threaded(d) == Setting(d).isGroup /\ Setting(d).threadId # Undefined

\* no message built yet
NoMessage == [title |-> <<>>, oldPrice |-> 0, newPrice |-> 0, url |-> <<>>]

\* The text of the notification, by its parts: title, old and new price, url
\* of the row re-read after the refresh. The percentage is left out.
Message(row, oldPrice) ==
  [title |-> row.title, oldPrice |-> oldPrice, newPrice |-> row.currentPrice,
   url |-> row.url]

\* sendMessage without the branch on the kind of the destination.
sendMessageFlat(setting, message) ==
  [chat |-> setting.chatId, thread |-> Undefined, text |-> message]

\* The call of bot.api.sendMessage for one destination: with
\* message_thread_id for a thread of a group, without it otherwise.
sendMessage(setting, message) ==
  IF setting.isGroup /\ setting.threadId # Undefined
  THEN [chat |-> setting.chatId, thread |-> setting.threadId, text |-> message]
  ELSE [chat |-> setting.chatId, thread |-> Undefined, text |-> message]

\* The locals of one execution of checkPricesAndNotify. message is the text
\* built for the current game, calls the sendMessage calls of its fan-out. prev and prevBase
\* remember the row as it was when this execution overwrote it; outcomes
\* remembers what the transport answered to each send of the current fan-out;
\* results holds the outcome of every loop iteration so far.
IdleSweep ==
  [pc |-> "idle", list |-> <<>>, st |-> <<>>, i |-> 0,
   loaded |-> 0, info |-> NoInfo, prev |-> 0, prevBase |-> 0, j |-> 0,
   okCnt |-> 0, failCnt |-> 0, outcomes |-> <<>>, results |-> <<>>,
   message |-> NoMessage, calls |-> <<>>]

IdleCmd ==
  [pc |-> "idle", list |-> <<>>, i |-> 0, loaded |-> 0, info |-> NoInfo]

\* title and url of the game with id g, as parseGame and the user gave them
TitleOf(g) == <<"title", g>>
UrlOf(g) == <<"url", g>>

NoRow ==
  [exists |-> FALSE, basePrice |-> 0, currentPrice |-> 0, onSale |-> FALSE,
   lastChecked |-> 0, title |-> <<>>, url |-> <<>>]

\* GameBot's session({ initial }): no conversation is running. An undefined
\* gameUrl is written <<>>.
InitialSession ==
  [gameUrl |-> <<>>, category |-> Undefined, awaitingCategories |-> FALSE,
   awaitingPlayers |-> FALSE, players |-> Undefined, awaitingGameUrl |-> FALSE,
   userId |-> Undefined, step |-> "null"]

\* The state after construction: the games of ids were added while their page
\* showed a plain price of 100, the destinations of dests are registered.
InitTables(ids, dests) ==
  /\ games = [g \in GameIds |->
               IF g \in ids
               THEN [exists |-> TRUE, basePrice |-> 100, currentPrice |-> 100,
                     onSale |-> FALSE, lastChecked |-> 0,
                     title |-> TitleOf(g), url |-> UrlOf(g)]
               ELSE NoRow]
  /\ page = [g \in GameIds |-> Plain(100)]
  /\ shown = [g \in GameIds |-> 100]
  /\ settings = dests
  /\ sweep = [s \in SweepIds |-> IdleSweep]
  /\ cmd = IdleCmd
  /\ delivered = [g \in GameIds |-> [d \in Dests |-> 0]]
  /\ drops = [g \in GameIds |-> 0]
  /\ log = [g \in GameIds |-> <<>>]
  /\ timerFires = 0
  /\ cmdRuns = 0
  /\ pageChanges = 0
  /\ removals = 0
  /\ session = InitialSession
  /\ addCalls = <<>>
  /\ flows = <<>>

\* No page is with the parser.
NoParse == markup = PlainMarkup(<<>>) /\ parsed = NoInfo

InitWith(ids, dests) == rev \in Revisions /\ InitTables(ids, dests) /\ NoParse

\* ---- GameService ------------------------------------------------------------

\* getGames: findMany, then mapGameToInterface on every row.
getGames ==
  LET ids == SelectSeq([g \in GameIds |-> g], LAMBDA g : games[g].exists)
  IN  [k \in 1..Len(ids) |->
         [id |-> ids[k], currentPrice |-> games[ids[k]].currentPrice]]

\* The data object updatePrice hands to prisma.game.update. loadedBase is
\* game.basePrice of the row read at the top of updatePrice.
updatePriceData(revision, loadedBase, info) ==
  IF revision = "plain"
  THEN [currentPrice |-> Effective(info), basePrice |-> info.basePrice]
  ELSE LET base == IF IsNum(info.basePrice) THEN info.basePrice ELSE loadedBase
           cur  == IF IsNum(info.discount) THEN info.discount ELSE base
       IN  [currentPrice |-> cur, basePrice |-> base]

\* ApplyUpdate with a data object that also carries the mark.
ApplyUpdateWithMark(row, data, at) ==
  [row EXCEPT !.currentPrice = data.currentPrice,
              !.basePrice = data.basePrice,
              !.onSale = Lt(data.currentPrice, data.basePrice),
              !.lastChecked = at]

\* The row after prisma.game.update({currentPrice, basePrice, lastChecked}).
ApplyUpdate(row, data, at) ==
  [row EXCEPT !.currentPrice = data.currentPrice,
              !.basePrice = data.basePrice,
              !.lastChecked = at]

\* The row after the write of updatePrice. The revision that keeps an onSale
\* column up to date writes the effective price (GamePrice.price of that
\* revision) and the mark, and leaves the list price of the row alone.
RefreshRow(revision, row, loadedBase, info, at) ==
  IF revision = "onSale"
  THEN [row EXCEPT !.currentPrice = Effective(info),
                   !.onSale = (info.discount # Undefined),
                   !.lastChecked = at]
  ELSE ApplyUpdate(row, updatePriceData(revision, loadedBase, info), at)

\* ---- NotificationService.checkPricesAndNotify ------------------------------

CurId(p) == p.list[p.i].id
\* const oldPrice = game.currentPrice, of the list read when the sweep began
OldPrice(sw) == sw.list[sw.i].currentPrice

\* Decide with the comparison of the first branch weakened to <=.
DecideLe(found, oldPrice, currentPrice, onSale) ==
  IF ~found \/ Falsy(oldPrice) \/ Falsy(currentPrice) THEN "skip"
  ELSE IF ~Lt(oldPrice, currentPrice) /\ ~onSale THEN "notify"
  ELSE IF Ge(currentPrice, oldPrice) /\ onSale THEN "clear"
  ELSE "none"

\* Decide without the else-if branch that takes the mark back.
DecideNoRecover(found, oldPrice, currentPrice, onSale) ==
  IF ~found \/ Falsy(oldPrice) \/ Falsy(currentPrice) THEN "skip"
  ELSE IF Lt(currentPrice, oldPrice) /\ ~onSale THEN "notify"
  ELSE "none"

\* Decide with a first branch that does not look at the mark.
DecideAnyDrop(found, oldPrice, currentPrice, onSale) ==
  IF ~found \/ Falsy(oldPrice) \/ Falsy(currentPrice) THEN "skip"
  ELSE IF Lt(currentPrice, oldPrice) THEN "notify"
  ELSE IF Ge(currentPrice, oldPrice) /\ onSale THEN "clear"
  ELSE "none"

\* Decide without the test for missing data.
DecideNoSkip(found, oldPrice, currentPrice, onSale) ==
  IF Lt(currentPrice, oldPrice) /\ ~onSale THEN "notify"
  ELSE IF Ge(currentPrice, oldPrice) /\ onSale THEN "clear"
  ELSE "none"

\* The if / else-if chain after the re-read of the row.
Decide(found, oldPrice, currentPrice, onSale) ==
  IF ~found \/ Falsy(oldPrice) \/ Falsy(currentPrice) THEN "skip"
  ELSE IF Lt(currentPrice, oldPrice) /\ ~onSale THEN "notify"
  ELSE IF Ge(currentPrice, oldPrice) /\ onSale THEN "clear"
  ELSE "none"

\* End of one iteration of the for loop: record its outcome, go on with the
\* next game of the list, or leave the loop.
NextGame(sw, outcome) ==
  LET sw1 == [sw EXCEPT !.results = Append(@, outcome), !.loaded = 0,
                        !.info = NoInfo, !.prev = 0, !.prevBase = 0, !.j = 0,
                        !.okCnt = 0, !.failCnt = 0, !.outcomes = <<>>,
                        !.message = NoMessage, !.calls = <<>>]
  IN  IF sw.i < Len(sw.list)
      THEN [sw1 EXCEPT !.i = @ + 1, !.pc = "load"]
      ELSE [sw1 EXCEPT !.pc = "done"]

\* The loop body without its try: the error leaves checkPricesAndNotify.
CatchIterationRethrow(sw, outcome) == [sw EXCEPT !.pc = "raised"]

\* catch (error) of the loop body: log, and the loop goes on.
CatchIteration(sw, outcome) == NextGame(sw, outcome)

\* AfterSend without the inner try: the first failed send ends the fan-out.
AfterSendBreak(sw, ok) ==
  LET sw1 == [sw EXCEPT !.outcomes = Append(@, ok),
                        !.okCnt = IF ok THEN @ + 1 ELSE @,
                        !.failCnt = IF ok THEN @ ELSE @ + 1]
  IN  IF ok /\ sw.j < Len(sw.st)
      THEN [sw1 EXCEPT !.j = @ + 1]
      ELSE [sw1 EXCEPT !.pc = "markSale"]

\* One pass of the inner loop over settings: the send of destination j
\* returned (ok) or threw (caught and logged in place).
AfterSend(sw, ok) ==
  LET sw1 == [sw EXCEPT !.outcomes = Append(@, ok),
                        !.okCnt = IF ok THEN @ + 1 ELSE @,
                        !.failCnt = IF ok THEN @ ELSE @ + 1]
  IN  IF sw.j < Len(sw.st)
      THEN [sw1 EXCEPT !.j = @ + 1]
      ELSE [sw1 EXCEPT !.pc = "markSale"]

LowestIdle == CHOOSE s \in SweepIds :
                /\ sweep[s].pc = "idle"
                /\ \A t \in SweepIds : sweep[t].pc = "idle" => s <= t

\* A refresh that wrote the row of a game, as the log keeps it.
Entry(who, info, event) == [by |-> who, info |-> info, event |-> event]

\* The setInterval callback: checkPricesAndNotify starts and reads the games.
TimerFire ==
  /\ \E s \in SweepIds : sweep[s].pc = "idle"
  /\ timerFires' = timerFires + 1
  /\ sweep' = [sweep EXCEPT ![LowestIdle] =
                 [IdleSweep EXCEPT !.pc = "settings", !.list = getGames]]
  /\ UNCHANGED <<rev, session, addCalls, flows, games, page, shown, settings, cmd, delivered, drops, log,
                 cmdRuns, pageChanges, removals,
                 markup, parsed>>

\* notificationSettings.findMany
SweepSettings(s) ==
  /\ sweep[s].pc = "settings"
  /\ sweep' = [sweep EXCEPT ![s] =
                 IF Len(@.list) = 0
                 THEN [@ EXCEPT !.st = settings, !.pc = "done"]
                 ELSE [@ EXCEPT !.st = settings, !.pc = "load", !.i = 1]]
  /\ UNCHANGED <<rev, session, addCalls, flows, games, page, shown, settings, cmd, delivered, drops, log,
                 timerFires, cmdRuns, pageChanges, removals,
                 markup, parsed>>

\* SweepLoad with an updatePrice that does not test what findUnique returned.
SweepLoadNoCheck(s) ==
  /\ sweep[s].pc = "load"
  /\ LET g == CurId(sweep[s]) IN
       sweep' = [sweep EXCEPT ![s] =
                   [@ EXCEPT !.loaded = games[g].basePrice, !.pc = "fetch"]]
  /\ UNCHANGED <<rev, session, addCalls, flows, games, page, shown, settings, cmd, delivered, drops, log,
                 timerFires, cmdRuns, pageChanges, removals,
                 markup, parsed>>

\* updatePrice: findUnique, "Game not found" when the row is gone
SweepLoad(s) ==
  /\ sweep[s].pc = "load"
  /\ LET g == CurId(sweep[s]) IN
       sweep' = [sweep EXCEPT ![s] =
                   IF games[g].exists
                   THEN [@ EXCEPT !.loaded = games[g].basePrice, !.pc = "fetch"]
                   ELSE CatchIteration(@, "notFound")]
  /\ UNCHANGED <<rev, session, addCalls, flows, games, page, shown, settings, cmd, delivered, drops, log,
                 timerFires, cmdRuns, pageChanges, removals,
                 markup, parsed>>

\* SweepFetch with an updatePrice that stamps lastChecked before it rethrows.
SweepFetchStamp(s) ==
  /\ sweep[s].pc = "fetch"
  /\ \E ok \in BOOLEAN :
       /\ sweep' = [sweep EXCEPT ![s] =
                      IF ok
                      THEN [@ EXCEPT !.info = page[CurId(sweep[s])], !.pc = "write"]
                      ELSE CatchIteration(@, "fetchFailed")]
       /\ games' = IF ok
                   THEN games
                   ELSE [games EXCEPT ![CurId(sweep[s])].lastChecked = now]
  /\ UNCHANGED <<rev, session, addCalls, flows, page, shown, settings, cmd, delivered, drops, log,
                 timerFires, cmdRuns, pageChanges, removals,
                 markup, parsed>>

\* updatePrice: parser.parsePrice, the page fetch may throw
SweepFetch(s) ==
  /\ sweep[s].pc = "fetch"
  /\ \E ok \in BOOLEAN :
       sweep' = [sweep EXCEPT ![s] =
                   IF ok
                   THEN [@ EXCEPT !.info = page[CurId(sweep[s])], !.pc = "write"]
                   ELSE CatchIteration(@, "fetchFailed")]
  /\ UNCHANGED <<rev, session, addCalls, flows, games, page, shown, settings, cmd, delivered, drops, log,
                 timerFires, cmdRuns, pageChanges, removals,
                 markup, parsed>>

\* updatePrice: prisma.game.update; throws when the row is gone. Whether the
\* database client accepts a NaN for a Float column is not decided by this
\* repository: both answers are allowed.
SweepWrite(s) ==
  /\ sweep[s].pc = "write"
  /\ LET g == CurId(sweep[s])
         data == RefreshRow(rev, games[g], sweep[s].loaded, sweep[s].info, now)
     IN  \/ /\ games[g].exists
            /\ games' = [games EXCEPT ![g] = data]
            /\ sweep' = [sweep EXCEPT ![s] =
                           [@ EXCEPT !.prev = games[g].currentPrice,
                                     !.prevBase = games[g].basePrice,
                                     !.pc = "read"]]
         \/ /\ ~games[g].exists \/ data.currentPrice = NaN \/ data.basePrice = NaN
            /\ sweep' = [sweep EXCEPT ![s] = CatchIteration(@, "updateFailed")]
            /\ UNCHANGED games
  /\ UNCHANGED <<rev, session, addCalls, flows, page, shown, settings, cmd, delivered, drops, log,
                 timerFires, cmdRuns, pageChanges, removals,
                 markup, parsed>>

\* findUnique of the updated row, and the decision
SweepRead(s) ==
  /\ sweep[s].pc = "read"
  /\ LET g == CurId(sweep[s])
         d == Decide(games[g].exists, OldPrice(sweep[s]),
                     games[g].currentPrice, games[g].onSale)
     IN  /\ sweep' = [sweep EXCEPT ![s] =
                        CASE d = "skip"   -> NextGame(@, "skipped")
                          [] d = "none"   -> NextGame(@, "unchanged")
                          [] d = "clear"  -> [@ EXCEPT !.pc = "clearSale"]
                          [] d = "notify" ->
                               LET m == Message(games[g], OldPrice(sweep[s])) IN
                                 IF Len(@.st) = 0
                                 THEN [@ EXCEPT !.pc = "markSale", !.message = m]
                                 ELSE [@ EXCEPT !.pc = "send", !.j = 1,
                                                !.message = m]]
         /\ log' = IF d \in {"skip", "none"}
                   THEN [log EXCEPT ![g] = Append(@, Entry("sweep", sweep[s].info, FALSE))]
                   ELSE log
  /\ UNCHANGED <<rev, session, addCalls, flows, games, page, shown, settings, cmd, delivered, drops,
                 timerFires, cmdRuns, pageChanges, removals,
                 markup, parsed>>

\* bot.api.sendMessage to settings[j]
SweepSend(s) ==
  /\ sweep[s].pc = "send"
  /\ \E ok \in BOOLEAN :
       /\ sweep' = [sweep EXCEPT ![s] =
                      [AfterSend(@, ok) EXCEPT !.calls =
                         Append(@, sendMessage(Setting(sweep[s].st[sweep[s].j]),
                                               sweep[s].message))]]
       /\ delivered' = IF ok
                       THEN [delivered EXCEPT
                               ![CurId(sweep[s])][sweep[s].st[sweep[s].j]] = @ + 1]
                       ELSE delivered
  /\ UNCHANGED <<rev, session, addCalls, flows, games, page, shown, settings, cmd, drops, log,
                 timerFires, cmdRuns, pageChanges, removals,
                 markup, parsed>>

\* SweepMarkSale that marks the game only when a send was accepted.
SweepMarkSaleIfDelivered(s) ==
  /\ sweep[s].pc = "markSale"
  /\ LET g == CurId(sweep[s]) IN
       /\ log' = [log EXCEPT ![g] = Append(@, Entry("sweep", sweep[s].info, TRUE))]
       /\ IF games[g].exists
          THEN /\ games' = [games EXCEPT ![g].onSale = (sweep[s].okCnt > 0)]
               /\ sweep' = [sweep EXCEPT ![s] = NextGame(@, "notified")]
          ELSE /\ games' = games
               /\ sweep' = [sweep EXCEPT ![s] = CatchIteration(@, "updateFailed")]
  /\ UNCHANGED <<rev, session, addCalls, flows, page, shown, settings, cmd, delivered, drops,
                 timerFires, cmdRuns, pageChanges, removals,
                 markup, parsed>>

\* prisma.game.update({onSale: true})
SweepMarkSale(s) ==
  /\ sweep[s].pc = "markSale"
  /\ LET g == CurId(sweep[s]) IN
       /\ log' = [log EXCEPT ![g] = Append(@, Entry("sweep", sweep[s].info, TRUE))]
       /\ IF games[g].exists
          THEN /\ games' = [games EXCEPT ![g].onSale = TRUE]
               /\ sweep' = [sweep EXCEPT ![s] = NextGame(@, "notified")]
          ELSE /\ games' = games
               /\ sweep' = [sweep EXCEPT ![s] = CatchIteration(@, "updateFailed")]
  /\ UNCHANGED <<rev, session, addCalls, flows, page, shown, settings, cmd, delivered, drops,
                 timerFires, cmdRuns, pageChanges, removals,
                 markup, parsed>>

\* prisma.game.update({onSale: false})
SweepClearSale(s) ==
  /\ sweep[s].pc = "clearSale"
  /\ LET g == CurId(sweep[s]) IN
       /\ log' = [log EXCEPT ![g] = Append(@, Entry("sweep", sweep[s].info, FALSE))]
       /\ IF games[g].exists
          THEN /\ games' = [games EXCEPT ![g].onSale = FALSE]
               /\ sweep' = [sweep EXCEPT ![s] = NextGame(@, "cleared")]
          ELSE /\ games' = games
               /\ sweep' = [sweep EXCEPT ![s] = CatchIteration(@, "updateFailed")]
  /\ UNCHANGED <<rev, session, addCalls, flows, page, shown, settings, cmd, delivered, drops,
                 timerFires, cmdRuns, pageChanges, removals,
                 markup, parsed>>

\* 'Price check and notification process completed': the promise resolves.
SweepFinish(s) ==
  /\ sweep[s].pc = "done"
  /\ sweep' = [sweep EXCEPT ![s] = IdleSweep]
  /\ UNCHANGED <<rev, session, addCalls, flows, games, page, shown, settings, cmd, delivered, drops, log,
                 timerFires, cmdRuns, pageChanges, removals,
                 markup, parsed>>

\* ---- GameCommandHandler.handleCheckPrices (/check_prices) -------------------

\* getGames
CmdStart ==
  /\ cmd.pc = "idle"
  /\ cmdRuns' = cmdRuns + 1
  /\ cmd' = IF Len(getGames) = 0
            THEN [IdleCmd EXCEPT !.pc = "reply"]
            ELSE [IdleCmd EXCEPT !.pc = "load", !.list = getGames, !.i = 1]
  /\ UNCHANGED <<rev, session, addCalls, flows, games, page, shown, settings, sweep, delivered, drops, log,
                 timerFires, pageChanges, removals,
                 markup, parsed>>

\* The loop of handleCheckPrices has no try of its own: an error of
\* updatePrice leaves the loop for the catch of the handler.
CmdThrow(c) == [IdleCmd EXCEPT !.pc = "replyError"]

CmdNext(c) ==
  IF c.i < Len(c.list)
  THEN [c EXCEPT !.i = @ + 1, !.pc = "load", !.loaded = 0, !.info = NoInfo]
  ELSE [IdleCmd EXCEPT !.pc = "reply"]

CmdLoad ==
  /\ cmd.pc = "load"
  /\ cmd' = IF games[CurId(cmd)].exists
            THEN [cmd EXCEPT !.loaded = games[CurId(cmd)].basePrice,
                             !.pc = "fetch"]
            ELSE CmdThrow(cmd)
  /\ UNCHANGED <<rev, session, addCalls, flows, games, page, shown, settings, sweep, delivered, drops, log,
                 timerFires, cmdRuns, pageChanges, removals,
                 markup, parsed>>

CmdFetch ==
  /\ cmd.pc = "fetch"
  /\ \E ok \in BOOLEAN :
       cmd' = IF ok
              THEN [cmd EXCEPT !.info = page[CurId(cmd)], !.pc = "write"]
              ELSE CmdThrow(cmd)
  /\ UNCHANGED <<rev, session, addCalls, flows, games, page, shown, settings, sweep, delivered, drops, log,
                 timerFires, cmdRuns, pageChanges, removals,
                 markup, parsed>>

CmdWrite ==
  /\ cmd.pc = "write"
  /\ LET g == CurId(cmd)
         data == RefreshRow(rev, games[g], cmd.loaded, cmd.info, now)
     IN  \/ /\ games[g].exists
            /\ games' = [games EXCEPT ![g] = data]
            /\ log' = [log EXCEPT ![g] = Append(@, Entry("cmd", cmd.info, FALSE))]
            /\ cmd' = CmdNext(cmd)
         \/ /\ ~games[g].exists \/ data.currentPrice = NaN \/ data.basePrice = NaN
            /\ cmd' = CmdThrow(cmd)
            /\ UNCHANGED <<games, log>>
  /\ UNCHANGED <<rev, session, addCalls, flows, page, shown, settings, sweep, delivered, drops,
                 timerFires, cmdRuns, pageChanges, removals,
                 markup, parsed>>

\* ctx.reply, of the success or of the error message
CmdReply ==
  /\ cmd.pc \in {"reply", "replyError"}
  /\ cmd' = IdleCmd
  /\ UNCHANGED <<rev, session, addCalls, flows, games, page, shown, settings, sweep, delivered, drops, log,
                 timerFires, cmdRuns, pageChanges, removals,
                 markup, parsed>>

\* ---- SteamParser.parsePrice ------------------------------------------------

\* parsePrice on a page that was fetched: processPrices on its markup. A fetch
\* that throws returns nothing and changes nothing.
parsePrice ==
  /\ parsed = NoInfo
  /\ parsed' = processPrices(markup)
  /\ UNCHANGED <<rev, session, addCalls, flows, games, page, shown, settings, sweep, cmd, delivered, drops,
                 log, timerFires, cmdRuns, pageChanges, removals, markup>>

\* ---- the world outside -------------------------------------------------------

\* The store changes what the page of a game shows.
ChangePage(g, o) ==
  /\ games[g].exists
  /\ o # page[g]
  /\ page' = [page EXCEPT ![g] = o]
  /\ pageChanges' = pageChanges + 1
  /\ shown' = IF IsNum(Effective(o))
              THEN [shown EXCEPT ![g] = Effective(o)]
              ELSE shown
  /\ drops' = IF Lt(Effective(o), shown[g])
              THEN [drops EXCEPT ![g] = @ + 1]
              ELSE drops
  /\ UNCHANGED <<rev, session, addCalls, flows, games, settings, sweep, cmd, delivered, log,
                 timerFires, cmdRuns, removals,
                 markup, parsed>>

\* parsed || gameData || 0 of the addGame that falls back: the handlers pass
\* gameData with basePrice 0 and currentPrice 0.
OrZero(x) == IF Falsy(x) THEN 0 ELSE x

\* The prices addGame hands to prisma.game.create for a page parsed as o.
addGameData(revision, o) ==
  IF revision = "fallback"
  THEN [basePrice |-> OrZero(o.basePrice), currentPrice |-> OrZero(Effective(o))]
  ELSE [basePrice |-> o.basePrice, currentPrice |-> Effective(o)]

\* GameService.addGame for a URL whose page shows o: parseGame, then
\* prisma.game.create. The parsed prices are locals of the call and no other
\* handler knows the game before the row exists, so the call is one step. When
\* the fetch throws, or the database client rejects a NaN, nothing changes.
createGame(g, url, o) ==
  /\ LET data == addGameData(rev, o) IN
       games' = [games EXCEPT ![g] =
                   [exists |-> TRUE, basePrice |-> data.basePrice,
                    currentPrice |-> data.currentPrice, onSale |-> FALSE,
                    lastChecked |-> now,
                    title |-> TitleOf(url[2]), url |-> url]]
  /\ page' = [page EXCEPT ![g] = o]
  /\ shown' = IF IsNum(Effective(o))
              THEN [shown EXCEPT ![g] = Effective(o)]
              ELSE shown

\* GameService.addGame called on its own, for the page of game g; the row
\* takes the id g.
addGame(g, o) ==
  /\ ~games[g].exists
  /\ createGame(g, UrlOf(g), o)
  /\ UNCHANGED <<rev, session, addCalls, flows, settings, sweep, cmd, delivered, drops, log,
                 timerFires, cmdRuns, pageChanges, removals,
                 markup, parsed>>

\* GameService.removeGame (handleDeleteGame): prisma.game.delete
removeGame(g) ==
  /\ games[g].exists
  /\ games' = [games EXCEPT ![g] = NoRow]
  /\ removals' = removals + 1
  /\ UNCHANGED <<rev, session, addCalls, flows, page, shown, settings, sweep, cmd, delivered, drops, log,
                 timerFires, cmdRuns, pageChanges,
                 markup, parsed>>

\* The destinations of a list of NotificationSettings rows.
Registered(st) == {st[k] : k \in 1..Len(st)}

\* notificationSettings.create in place of the upsert.
createSettings(st, d) == Append(st, d)

\* notificationSettings.upsert, where (chatId, threadId) of d, update {}: the
\* row of d is created when the table has none.
upsertSettings(st, d) == IF d \in Registered(st) THEN st ELSE Append(st, d)

\* notificationSettings.delete, where (chatId, threadId) of d: the table
\* after it, and whether it threw for want of the row.
deleteSettings(st, d) ==
  IF d \in Registered(st)
  THEN [table |-> SelectSeq(st, LAMBDA e : e # d), error |-> FALSE]
  ELSE [table |-> st, error |-> TRUE]

\* NotificationService.setNotificationThread (/set_notifications): upsert with
\* update {}, a row that is there stays as it is.
setNotificationThread(d) ==
  /\ Threaded(d)
  /\ settings' = upsertSettings(settings, d)
  /\ UNCHANGED <<rev, session, addCalls, flows, games, page, shown, sweep, cmd, delivered, drops, log,
                 timerFires, cmdRuns, pageChanges, removals,
                 markup, parsed>>

\* NotificationService.removeNotificationSettings (/remove_notifications):
\* delete, which throws and changes nothing when the row is not there.
removeNotificationSettings(d) ==
  /\ Threaded(d)
  /\ settings' = deleteSettings(settings, d).table
  /\ UNCHANGED <<rev, session, addCalls, flows, games, page, shown, sweep, cmd, delivered, drops, log,
                 timerFires, cmdRuns, pageChanges, removals,
                 markup, parsed>>

SweepStep(s) ==
  \/ SweepSettings(s)
  \/ SweepLoad(s)
  \/ SweepFetch(s)
  \/ SweepWrite(s)
  \/ SweepRead(s)
  \/ SweepSend(s)
  \/ SweepMarkSale(s)
  \/ SweepClearSale(s)
  \/ SweepFinish(s)

CmdStep == CmdLoad \/ CmdFetch \/ CmdWrite \/ CmdReply

AllIdle == cmd.pc = "idle" /\ \A s \in SweepIds : sweep[s].pc = "idle"

\* ---- the add-game conversation ------------------------------------------------
\* grammY hands the updates of a chat to the handlers one after the other, so a
\* handler runs to its end before the next one starts. The session's
\* messageIdsToDelete only lists messages to tidy up and is left out; a field
\* that is undefined reads as FALSE for a flag and as <<>> for gameUrl.

Users == 1..NumUsers

\* ctx.from?.id of an update: a user, or nothing.
Senders == Users \cup {Undefined}

\* A text message by what the handlers read of it: whether it includes
\* 'store.steampowered.com', the game whose page it names, and parseInt of it.
UrlText(g) == [steam |-> TRUE, game |-> g, int |-> NaN]

NumText(n) == [steam |-> FALSE, game |-> 0, int |-> n]

WordText == [steam |-> FALSE, game |-> 0, int |-> NaN]

\* The handlers never compare two links, so the link of one game stands for
\* all of them.
TextInputs == {UrlText(1), WordText} \cup {NumText(n) : n \in 0..2}

initializeAddSession(u) ==
  [gameUrl |-> <<>>, category |-> Undefined, awaitingCategories |-> FALSE,
   awaitingPlayers |-> FALSE, players |-> Undefined, awaitingGameUrl |-> TRUE,
   userId |-> u, step |-> "url"]

\* ctx.session = {} of handleCancelAdd
EmptySession ==
  [gameUrl |-> <<>>, category |-> Undefined, awaitingCategories |-> FALSE,
   awaitingPlayers |-> FALSE, players |-> Undefined, awaitingGameUrl |-> FALSE,
   userId |-> Undefined, step |-> "undefined"]

clearSession(s) ==
  [s EXCEPT !.gameUrl = <<>>, !.category = Undefined,
            !.awaitingCategories = FALSE, !.players = Undefined,
            !.awaitingPlayers = FALSE, !.awaitingGameUrl = FALSE,
            !.userId = Undefined, !.step = "null"]

handleSuccessfulParseKeepFlag(s, url) ==
  [s EXCEPT !.gameUrl = url, !.step = "players", !.awaitingPlayers = TRUE]

handleSuccessfulParse(s, url) ==
  [s EXCEPT !.gameUrl = url, !.awaitingGameUrl = FALSE,
            !.step = "players", !.awaitingPlayers = TRUE]

setupCategorySelection(s, players) ==
  [s EXCEPT !.players = players, !.awaitingPlayers = FALSE,
            !.step = "category", !.awaitingCategories = TRUE]

\* titled: parseGame returned a game with a title. Every other outcome ends in
\* handleParseError, which leaves the session alone.
handleUrlStep(s, t, titled) ==
  IF ~t.steam THEN s
  ELSE IF titled THEN handleSuccessfulParse(s, UrlOf(t.game))
  ELSE s

handlePlayersStep(s, t) ==
  IF ~IsNum(t.int) \/ t.int < 1 THEN s ELSE setupCategorySelection(s, t.int)

\* GameCommandHandler.handleAdd for the command /add of u
handleAdd(u) ==
  /\ IF u = Undefined
     THEN UNCHANGED <<session, flows>>
     ELSE /\ session' = initializeAddSession(u)
          /\ flows' = Append(flows, u)
  /\ UNCHANGED <<rev, games, page, shown, settings, sweep, cmd, delivered,
                 drops, log, timerFires, cmdRuns, pageChanges, removals,
                 markup, parsed, addCalls>>

\* MessageHandlers.handleMessage for the text t of u
handleMessage(u, t, titled) ==
  /\ session' =
       IF u = Undefined THEN session
       ELSE IF session.userId # Undefined /\ session.userId # u THEN session
       ELSE IF session.step = "url" /\ session.awaitingGameUrl
            THEN handleUrlStep(session, t, titled)
       ELSE IF session.step = "players" /\ session.awaitingPlayers
            THEN handlePlayersStep(session, t)
       ELSE session
  /\ UNCHANGED <<rev, games, page, shown, settings, sweep, cmd, delivered,
                 drops, log, timerFires, cmdRuns, pageChanges, removals,
                 markup, parsed, addCalls, flows>>

\* The guard of handleCategorySelection, lines 231-251.
MayAddAnyUser(s, u) ==
  /\ u # Undefined
  /\ s.gameUrl # <<>>
  /\ s.awaitingCategories
  /\ s.step = "category"

MayAdd(s, u) ==
  /\ u # Undefined
  /\ s.gameUrl # <<>>
  /\ s.awaitingCategories
  /\ s.step = "category"
  /\ s.userId = u

\* The game handleCategorySelection hands to addGame.
NewGame(s) ==
  [url |-> s.gameUrl,
   players |-> IF s.players = Undefined \/ Falsy(s.players) THEN 1 ELSE s.players,
   basePrice |-> 0, currentPrice |-> 0, title |-> <<>>]

\* MessageHandlers.handleCategorySelection for a category button pressed by u,
\* while the page of the game shows o. progress: the reply 'adding the game'
\* went out; created: parseGame and prisma.game.create went through, and the
\* row takes the next id (Game.url is not unique);
\* okSent / errSent: the Telegram calls of handleSuccessfulGameAdd /
\* handleGameAddError went through. Both end with clearSession, after their
\* Telegram calls; a throw of handleSuccessfulGameAdd lands in the catch.
handleCategorySelection(u, o, progress, created, okSent, errSent) ==
  /\ IF ~MayAdd(session, u) \/ ~progress
     THEN UNCHANGED <<session, addCalls, games, page, shown>>
     ELSE LET free == {r \in GameIds : ~games[r].exists}
              ok == created /\ free # {}
              g == CHOOSE r \in free : \A q \in free : r <= q
          IN /\ addCalls' = Append(addCalls,
                  [game |-> NewGame(session), user |-> u,
                   issuer |-> flows[Len(flows)], session |-> session,
                   flow |-> Len(flows)])
             /\ IF ok THEN createGame(g, session.gameUrl, o)
                      ELSE UNCHANGED <<games, page, shown>>
             /\ session' = IF (ok /\ okSent) \/ errSent
                           THEN clearSession(session)
                           ELSE session
  /\ UNCHANGED <<rev, settings, sweep, cmd, delivered, drops, log,
                 timerFires, cmdRuns, pageChanges, removals, markup, parsed,
                 flows>>

\* The ways through handleCategorySelection once its guard has passed; a call
\* that is not reached is written FALSE.
Outcomes ==
  {r \in [progress : BOOLEAN, created : BOOLEAN, okSent : BOOLEAN,
          errSent : BOOLEAN] :
     /\ ~r.progress => ~r.created /\ ~r.errSent
     /\ ~r.created => ~r.okSent
     /\ r.okSent => ~r.errSent}

\* GameCommandHandler.handleCancelAdd; deleted: every deleteMessage went
\* through, otherwise the catch answers and the session stays.
handleCancelAdd(u, deleted) ==
  /\ session' = IF deleted THEN EmptySession ELSE session
  /\ UNCHANGED <<rev, games, page, shown, settings, sweep, cmd, delivered,
                 drops, log, timerFires, cmdRuns, pageChanges, removals,
                 markup, parsed, addCalls, flows>>

\* ---- the specifications ------------------------------------------------------

\* One game, one destination; the timer fires and the commands arrive at any
\* time, so the handlers interleave at their awaits. The page stays readable.
Init == InitWith({1}, <<1>>)

Next ==
  \/ timerFires < FewTimerFires /\ TimerFire
  \/ \E s \in SweepIds : SweepStep(s)
  \/ cmdRuns < MaxCmdRuns /\ CmdStart
  \/ CmdStep
  \/ pageChanges < FewPageChanges /\ \E g \in GameIds, o \in ValidPages : ChangePage(g, o)
  \/ removals < MaxRemovals /\ \E g \in GameIds : removeGame(g)

Spec == Init /\ [][Next]_vars

\* One game, one destination; the timer period is longer than a sweep: a sweep
\* starts only when none is in progress, and no command arrives.
InitSeq == InitWith({1}, <<1>>)

NextSeq ==
  \/ AllIdle /\ timerFires < MaxTimerFires /\ TimerFire
  \/ \E s \in SweepIds : SweepStep(s)
  \/ pageChanges < MaxPageChanges /\ \E g \in GameIds, o \in Pages : ChangePage(g, o)

SpecSeq == InitSeq /\ [][NextSeq]_vars

\* The same with the revision of updatePrice that validates what it parsed.
InitFallback == InitSeq /\ rev = "fallback"

SpecFallback == InitFallback /\ [][NextSeq]_vars

\* One game, every destination; sweeps take turns.
InitFan == InitWith({1}, [d \in Dests |-> d])

NextFan ==
  \/ AllIdle /\ timerFires < FewTimerFires /\ TimerFire
  \/ \E s \in SweepIds : SweepStep(s)
  \/ pageChanges < FewPageChanges /\ \E g \in GameIds, o \in Pages : ChangePage(g, o)

SpecFan == InitFan /\ [][NextFan]_vars

\* Every game, one destination, the updatePrice of GameService.ts; sweeps take
\* turns and the store changes a page between two sweeps: a change during a
\* sweep is seen by the fetch of its game as a change before or after the sweep.
InitAll == InitWith(GameIds, <<1>>) /\ rev = "plain"

NextAll ==
  \/ AllIdle /\ timerFires < FewTimerFires /\ TimerFire
  \/ \E s \in SweepIds : SweepStep(s)
  \/ AllIdle /\ pageChanges < FewPageChanges /\ \E g \in GameIds, o \in Pages : ChangePage(g, o)

SpecAll == InitAll /\ [][NextAll]_vars

\* The same with the revision of updatePrice that writes the onSale column.
InitOnSale == rev = "onSale" /\ InitTables({1}, <<1>>) /\ NoParse

SpecOnSale == InitOnSale /\ [][NextSeq]_vars

\* One game, one destination; sweeps take turns, and the game can be deleted
\* at any time, also after a sweep has read its list.
InitRemove == InitWith({1}, <<1>>)

NextRemove ==
  \/ AllIdle /\ timerFires < FewTimerFires /\ TimerFire
  \/ \E s \in SweepIds : SweepStep(s)
  \/ pageChanges < FewPageChanges /\ \E g \in GameIds, o \in ValidPages : ChangePage(g, o)
  \/ removals < MaxRemovals /\ \E g \in GameIds : removeGame(g)

SpecRemove == InitRemove /\ [][NextRemove]_vars

\* One game, one destination; sweeps take turns, and /check_prices arrives at
\* any time, also while a sweep is in progress. The page stays readable.
InitCmd == InitWith({1}, <<1>>)

NextCmd ==
  \/ (\A s \in SweepIds : sweep[s].pc = "idle") /\ timerFires < FewTimerFires /\ TimerFire
  \/ \E s \in SweepIds : SweepStep(s)
  \/ cmdRuns < MaxCmdRuns /\ CmdStart
  \/ CmdStep
  \/ pageChanges < FewPageChanges /\ \E g \in GameIds, o \in ValidPages : ChangePage(g, o)

SpecCmd == InitCmd /\ [][NextCmd]_vars

\* Every game, no sweep: /check_prices alone, the store changing pages at any
\* time.
InitCmdAll == InitWith(GameIds, <<1>>)

NextCmdAll ==
  \/ cmdRuns < MaxCmdRuns /\ CmdStart
  \/ CmdStep
  \/ pageChanges < FewPageChanges /\ \E g \in GameIds, o \in Pages : ChangePage(g, o)

SpecCmdAll == InitCmdAll /\ [][NextCmdAll]_vars

\* One game; sweeps take turns, destinations are registered and removed at any
\* time, also while a sweep is in progress. The page stays readable.
InitSettings == InitWith({1}, <<1>>)

NextSettings ==
  \/ AllIdle /\ timerFires < FewTimerFires /\ TimerFire
  \/ \E s \in SweepIds : SweepStep(s)
  \/ pageChanges < FewPageChanges /\ \E g \in GameIds, o \in ValidPages : ChangePage(g, o)
  \/ \E d \in Dests : setNotificationThread(d)
  \/ \E d \in Dests : removeNotificationSettings(d)

SpecSettings == InitSettings /\ [][NextSettings]_vars

\* No game at first: games are added from pages of any kind at any time, and
\* sweeps take turns.
InitAdd == InitWith({}, <<1>>)

NextAdd ==
  \/ \E g \in GameIds, o \in Pages : addGame(g, o)
  \/ AllIdle /\ timerFires < FewTimerFires /\ TimerFire
  \/ \E s \in SweepIds : SweepStep(s)
  \/ AllIdle /\ pageChanges < FewPageChanges /\ \E g \in GameIds, o \in ValidPages : ChangePage(g, o)

SpecAdd == InitAdd /\ [][NextAdd]_vars

\* The parser alone, on a page with any price markup.
InitParse ==
  /\ rev = "plain"
  /\ InitTables({}, <<>>)
  /\ markup \in Markups(MaxLen)
  /\ parsed = NoInfo

NextParse == parsePrice

SpecParse == InitParse /\ [][NextParse]_vars

\* The parser alone, on the pages of the store in the rouble region.
InitStore ==
  /\ rev = "plain"
  /\ InitTables({}, <<>>)
  /\ markup \in StoreMarkups
  /\ parsed = NoInfo

SpecStore == InitStore /\ [][NextParse]_vars

\* The add-game conversation of one chat: commands, texts and button presses
\* of several users, in any order; no game is in the table at first.
InitSession == InitWith({}, <<1>>) /\ rev = "plain"

NextSession ==
  \/ Len(flows) < MaxFlows /\ \E u \in Senders : handleAdd(u)
  \/ \E u \in Senders, t \in TextInputs, titled \in BOOLEAN :
       handleMessage(u, t, titled)
  \/ /\ Len(addCalls) < MaxAddCalls
     /\ \E u \in Senders, o \in {Plain(100)}, r \in Outcomes :
          handleCategorySelection(u, o, r.progress, r.created, r.okSent,
                                  r.errSent)
  \/ \E u \in Senders, deleted \in BOOLEAN : handleCancelAdd(u, deleted)

SpecSession == InitSession /\ [][NextSession]_vars

\* ---- properties ----------------------------------------------------------------

\* No sweep stands between its write of the row of g and its log entry.
Settled(g) ==
  \A s \in SweepIds :
    sweep[s].pc \in {"read", "send", "markSale", "clearSale"} => CurId(sweep[s]) # g

Written == {"skipped", "unchanged", "notified", "cleared"}

\* The step of sweep s that re-reads the row and decides.
ReadStep(s) == sweep[s].pc = "read" /\ sweep'[s].pc # "read"

RecoveryScenario(g) ==
  /\ games[g].exists
  /\ Settled(g)
  /\ Len(log[g]) = 3
  /\ \A k \in 1..3 : log[g][k].by = "sweep"
  /\ log[g][1].info = Plain(100)
  /\ log[g][2].info = Sale(100, 80)
  /\ log[g][3].info = Plain(100)

\* C1: a game stored at 100/100, not on sale, that three sweeps in a row
\* refresh from pages showing 100, then 100 struck out for 80, then 100 again,
\* is notified exactly once, by the second sweep, and ends not on sale at 100.
C1_Recovery ==
  \A g \in GameIds :
    RecoveryScenario(g) =>
      /\ ~log[g][1].event /\ log[g][2].event /\ ~log[g][3].event
      /\ \A d \in Dests : delivered[g][d] <= 1
      /\ ~games[g].onSale
      /\ games[g].currentPrice = 100

C1_Witness == \E g \in GameIds : RecoveryScenario(g) /\ log[g][2].event

\* C2: when two sweeps in a row refresh a game from the same page, the second
\* emits no notification, whether or not the first one did.
C2_Idempotent ==
  \A g \in GameIds :
    \A k \in 1..(Len(log[g]) - 1) :
      ( /\ log[g][k].by = "sweep"
        /\ log[g][k + 1].by = "sweep"
        /\ log[g][k].info = log[g][k + 1].info )
      => ~log[g][k + 1].event

C2_Witness ==
  \E g \in GameIds :
    \E k \in 1..(Len(log[g]) - 1) :
      /\ log[g][k].by = "sweep"
      /\ log[g][k + 1].by = "sweep"
      /\ log[g][k].info = log[g][k + 1].info
      /\ log[g][k].event
      /\ ~log[g][k + 1].event

\* C3: a sweep never raises, and when it has left its loop every game of its
\* list has an outcome: the games whose refresh did not fail carry the time of
\* this sweep in their row, also those that come after a failed fetch.
C3_SweepIsolation ==
  \A s \in SweepIds :
    /\ sweep[s].pc # "raised"
    /\ sweep[s].pc = "done" =>
         /\ Len(sweep[s].results) = Len(sweep[s].list)
         /\ \A k \in 1..Len(sweep[s].list) :
              (sweep[s].results[k] \in Written /\ games[sweep[s].list[k].id].exists)
              => games[sweep[s].list[k].id].lastChecked = now

C3_Witness ==
  \E s \in SweepIds :
    /\ sweep[s].pc = "done"
    /\ \E k1, k2 \in 1..Len(sweep[s].list) :
         /\ k1 < k2
         /\ sweep[s].results[k1] = "fetchFailed"
         /\ sweep[s].results[k2] \in Written
         /\ games[sweep[s].list[k2].id].exists
         /\ games[sweep[s].list[k2].id].lastChecked = now

Count(seq, b) == Cardinality({k \in 1..Len(seq) : seq[k] = b})

C5_BadParseKeepsRow ==
  [][\A s \in SweepIds :
       ( /\ sweep[s].pc = "write"
         /\ sweep'[s].pc # "write"
         /\ sweep[s].info \in MalformedPages )
       => /\ games' = games
          /\ sweep'[s].pc \notin {"read", "send", "markSale"}]_vars

\* C6: at most one execution of checkPricesAndNotify is in progress.
C6_NoOverlap == Cardinality({s \in SweepIds : sweep[s].pc # "idle"}) <= 1

\* C7: after every completed refresh by sweeps from valid pages, a game is
\* marked on sale exactly when its current price is below its base price.
C7_OnSaleIffDiscounted ==
  \A g \in GameIds :
    ( /\ games[g].exists
      /\ Settled(g)
      /\ Len(log[g]) > 0
      /\ \A k \in 1..Len(log[g]) :
           log[g][k].by = "sweep" /\ log[g][k].info \in ValidPages )
    => (games[g].onSale <=> Lt(games[g].currentPrice, games[g].basePrice))

\* C8: a destination receives at most one notification about a game per drop
\* of the effective price on the page of that game.
C8_AtMostOncePerDrop ==
  \A g \in GameIds : \A d \in Dests : delivered[g][d] <= drops[g]

C10_RecoveryClears ==
  [][\A s \in SweepIds :
       ( /\ ReadStep(s)
         /\ games[CurId(sweep[s])].exists
         /\ games[CurId(sweep[s])].onSale
         /\ Ge(games[CurId(sweep[s])].currentPrice, sweep[s].prevBase) )
       => sweep'[s].pc = "clearSale"]_vars

\* C11: a sweep hands a game over for notification only when the effective
\* price it fetched is below the current price the row held immediately before
\* this refresh wrote it, also when /check_prices refreshed the game after the
\* sweep read its list.
C11_DropAgainstStoredPrice ==
  [][\A s \in SweepIds :
       (ReadStep(s) /\ sweep'[s].pc \in {"send", "markSale"})
       => Lt(Effective(sweep[s].info), sweep[s].prev)]_vars

\* C12: a refresh that succeeds on a readable page stores the list price of the
\* page as base price, whatever was stored before, the struck-down price when
\* there is one and the list price otherwise as current price, and the time of
\* the refresh as lastChecked.
C12_RefreshStoresObservation ==
  [][\A s \in SweepIds :
       ( /\ sweep[s].pc = "write"
         /\ sweep'[s].pc = "read"
         /\ sweep[s].info \in ValidPages )
       => LET g == CurId(sweep[s]) IN
            /\ games'[g].basePrice = sweep[s].info.basePrice
            /\ games'[g].currentPrice = Effective(sweep[s].info)
            /\ games'[g].lastChecked = now]_vars

\* The step of sweep s in which the page fetch of updatePrice throws.
FetchFails(s) ==
  /\ sweep[s].pc = "fetch"
  /\ sweep'[s].results = Append(sweep[s].results, "fetchFailed")

\* C13: when the page fetch of a refresh fails, the rows keep their base price,
\* current price, mark and lastChecked, nothing is sent and the sweep goes on
\* without a notification for the game; every sweep that starts later has the
\* game in its list again.
C13_FetchFailureKeepsRow ==
  [][ /\ \A s \in SweepIds :
          FetchFails(s) =>
            /\ games' = games
            /\ delivered' = delivered
            /\ sweep'[s].pc \in {"load", "done"}
      /\ \A s \in SweepIds :
          (sweep[s].pc = "idle" /\ sweep'[s].pc = "settings") =>
            \A g \in GameIds :
              games[g].exists => \E k \in 1..Len(sweep'[s].list) : sweep'[s].list[k].id = g
    ]_vars

\* The second sweep has fetched the page of a game whose row is still as the
\* first sweep found it: the fetch of the first sweep had failed.
C13_Witness ==
  \E s \in SweepIds :
    /\ timerFires = 2
    /\ pageChanges = 0
    /\ sweep[s].pc = "write"
    /\ games[CurId(sweep[s])].lastChecked = 0
    /\ games[CurId(sweep[s])].currentPrice = 100
    /\ \A d \in Dests : delivered[CurId(sweep[s])][d] = 0

\* C14: the refresh of a game whose row is gone, as when the game is deleted
\* after the sweep read its list, ends with not found before any page is
\* fetched: no row is created or changed, nothing is sent, the loop goes on.
C14_MissingRowNotFound ==
  [][\A s \in SweepIds :
       ( /\ sweep[s].pc = "load"
         /\ sweep'[s] # sweep[s]
         /\ ~games[CurId(sweep[s])].exists )
       => /\ sweep'[s].results = Append(sweep[s].results, "notFound")
          /\ sweep'[s].pc \in {"load", "done"}
          /\ games' = games
          /\ delivered' = delivered]_vars

C14_Witness ==
  \E s \in SweepIds :
    /\ sweep[s].pc = "done"
    /\ Len(sweep[s].results) >= 1
    /\ sweep[s].results[1] = "notFound"
    /\ removals = 1
    /\ games = [g \in GameIds |-> NoRow]
    /\ \A g \in GameIds, d \in Dests : delivered[g][d] = 0

\* The step of /check_prices in which updatePrice throws for the current game.
CmdFails ==
  /\ cmd.pc \in {"load", "fetch", "write"}
  /\ cmd' # cmd
  /\ ~(cmd.pc = "load" /\ cmd'.pc = "fetch")
  /\ ~(cmd.pc = "fetch" /\ cmd'.pc = "write")
  /\ ~(cmd.pc = "write" /\ log' # log)

\* C15: when the refresh of one game fails during /check_prices and games are
\* left in the list, the command goes on with the next game of the list.
C15_CommandSweepGoesOn ==
  [][(CmdFails /\ cmd.i < Len(cmd.list))
     => (cmd'.pc = "load" /\ cmd'.list = cmd.list /\ cmd'.i = cmd.i + 1)]_vars

\* The executions of updatePrice for game g that have read the row and have
\* not yet written it.
Refreshing(g) ==
  Cardinality({s \in SweepIds :
                 sweep[s].pc \in {"fetch", "write"} /\ CurId(sweep[s]) = g})
  + (IF cmd.pc \in {"fetch", "write"} /\ CurId(cmd) = g THEN 1 ELSE 0)

\* C16: at most one refresh of a game is in progress at any time.
C16_OneRefreshPerGame == \A g \in GameIds : Refreshing(g) <= 1

\* C17: when a sweep hands a price drop over for notification, the destinations
\* it is going to try are the destinations registered at that moment: those
\* added during the sweep are among them, those removed during it are not.
C17_DestinationsAtHandOver ==
  [][\A s \in SweepIds :
       (ReadStep(s) /\ sweep'[s].pc \in {"send", "markSale"})
       => Registered(sweep'[s].st) = Registered(settings)]_vars

\* C18: a send, accepted or failed, changes no row, and the update after the
\* fan-out sets the mark of the game and nothing else, whatever the sends did:
\* base price, current price and mark do not depend on the deliveries.
C18_DeliveryLeavesPrices ==
  [][\A s \in SweepIds :
       /\ (sweep[s].pc = "send" /\ sweep'[s] # sweep[s]) => games' = games
       /\ ( /\ sweep[s].pc = "markSale"
            /\ sweep'[s] # sweep[s]
            /\ games[CurId(sweep[s])].exists )
          => games' = [games EXCEPT ![CurId(sweep[s])].onSale = TRUE]]_vars

\* Every send of the fan-out failed, and the game is marked at its new price.
C18_Witness ==
  \E s \in SweepIds :
    /\ sweep[s].pc = "done"
    /\ sweep[s].results = <<"notified">>
    /\ Len(sweep[s].st) = NumDests
    /\ \A d \in Dests : delivered[1][d] = 0
    /\ games[1].onSale
    /\ games[1].basePrice = 100
    /\ games[1].currentPrice = 80

\* C19: a row is created only for a page whose list price, and struck-down
\* price when there is one, were extracted as numbers.
C19_CreatedOnlyWithPrice ==
  [][\A g \in GameIds :
       (~games[g].exists /\ games'[g].exists) => page'[g] \in ValidPages]_vars

\* C20: whatever the price markup of the page, parsePrice returns a base price
\* that is a number and not negative, and a discount that is absent or a number
\* and not negative: never NaN.
C20_ParsedPriceIsNumber ==
  parsed # NoInfo =>
    /\ IsNum(parsed.basePrice)
    /\ parsed.discount = Undefined \/ IsNum(parsed.discount)

\* C21: a refresh whose page has the discount block with an original or a
\* reduced price that did not parse stores nothing of that block: the row of the
\* game stays as it was.
C21_NoPartialDiscountBlock ==
  [][\A s \in SweepIds :
       ( /\ sweep[s].pc = "write"
         /\ sweep'[s].pc # "write"
         /\ sweep[s].info.discount # Undefined
         /\ (sweep[s].info.basePrice = NaN \/ sweep[s].info.discount = NaN) )
       => games' = games]_vars

\* C22: every call of a fan-out goes to the chat of its destination, with the
\* thread id of the destination when it is a group with a thread id and without
\* a thread id otherwise; all calls carry the one message built for the game,
\* which has the title, the url and the current price of the refreshed row.
C22_DispatchByVariant ==
  \A s \in SweepIds :
    sweep[s].pc \in {"send", "markSale"} =>
      /\ \A k \in 1..Len(sweep[s].calls) :
           LET d == sweep[s].st[k]
               c == sweep[s].calls[k]
           IN  /\ c.chat = Setting(d).chatId
               /\ c.thread = IF Threaded(d) THEN Setting(d).threadId ELSE Undefined
               /\ c.text = sweep[s].message
      /\ sweep[s].message.title = TitleOf(CurId(sweep[s]))
      /\ sweep[s].message.url = UrlOf(CurId(sweep[s]))
      /\ games[CurId(sweep[s])].exists
         => sweep[s].message.newPrice = games[CurId(sweep[s])].currentPrice

\* A fan-out over a thread of a group, a plain chat and a second thread is
\* over: three calls were made.
C22_Witness ==
  \E s \in SweepIds :
    /\ sweep[s].pc = "markSale"
    /\ Len(sweep[s].calls) = 3
    /\ Threaded(sweep[s].st[1])
    /\ ~Threaded(sweep[s].st[2])
    /\ sweep[s].calls[1].thread = Setting(sweep[s].st[1]).threadId
    /\ sweep[s].calls[2].thread = Undefined
    /\ sweep[s].message.newPrice = 80

\* C23: the parser reads the price texts of the store, spaces and currency
\* sign stripped and the comma taken as the decimal point: a discount block
\* with "1 999,00 P" struck out for "999,00 P" yields base price 1999.00 and
\* discount 999.00, and so for every list price and reduced price.
C23_StorePriceText ==
  parsed # NoInfo =>
    /\ \A b \in StorePrices :
         markup = PlainMarkup(StoreText(b))
         => parsed = [basePrice |-> b * Scale, discount |-> Undefined]
    /\ \A b, d \in StorePrices :
         markup = DiscountMarkup(StoreText(b), StoreText(d))
         => parsed = [basePrice |-> b * Scale, discount |-> d * Scale]

C23_Witness ==
  /\ markup.discounted
  /\ markup.original = <<"1", " ", "9", "9", "9", ",", "0", "0", " ", "P">>
  /\ markup.final = <<"9", "9", "9", ",", "0", "0", " ", "P">>
  /\ parsed = [basePrice |-> 1999 * Scale, discount |-> 999 * Scale]

\* The fields of a row that updatePrice has no business with.
Identity(row) ==
  [exists |-> row.exists, title |-> row.title, url |-> row.url,
   onSale |-> row.onSale]

\* C24: the write of updatePrice, by a sweep or by /check_prices, leaves the
\* title, the url and the mark of its game as they were, creates and deletes
\* no row, and leaves the rows of all other games untouched.
C24_RefreshKeepsIdentity ==
  [][ /\ \A s \in SweepIds :
          (sweep[s].pc = "write" /\ sweep'[s].pc # "write") =>
            /\ Identity(games'[CurId(sweep[s])]) = Identity(games[CurId(sweep[s])])
            /\ \A h \in GameIds \ {CurId(sweep[s])} : games'[h] = games[h]
      /\ (cmd.pc = "write" /\ cmd' # cmd) =>
            /\ Identity(games'[CurId(cmd)]) = Identity(games[CurId(cmd)])
            /\ \A h \in GameIds \ {CurId(cmd)} : games'[h] = games[h]
    ]_vars

\* /check_prices has refreshed the first game from a page with a discount and
\* not yet the second.
C24_Witness ==
  /\ cmd.pc = "load"
  /\ cmd.i = 2
  /\ games[1] = [exists |-> TRUE, basePrice |-> 100, currentPrice |-> 80,
                 onSale |-> FALSE, lastChecked |-> 1,
                 title |-> TitleOf(1), url |-> UrlOf(1)]
  /\ games[2].lastChecked = 0

\* The effective price the row of g held before the refresh of log entry k:
\* that of the entry before, or of the row as it was added.
StoredBefore(g, k) == IF k = 1 THEN 100 ELSE Effective(log[g][k - 1].info)

\* C25: when /check_prices was the last to refresh a game, from a page whose
\* effective price is below the one stored before, and a sweep that began
\* after that refresh finds the same page, the sweep notifies the drop.
C25_DropSeenByCommandFirst ==
  [][\A s \in SweepIds :
       LET g == CurId(sweep[s])
           n == Len(log[g])
       IN  ( /\ ReadStep(s)
             /\ n > 0
             /\ log[g][n].by = "cmd"
             /\ log[g][n].info = sweep[s].info
             /\ OldPrice(sweep[s]) = Effective(sweep[s].info)
             /\ ~Falsy(Effective(sweep[s].info))
             /\ Lt(Effective(sweep[s].info), StoredBefore(g, n)) )
           => sweep'[s].pc \in {"send", "markSale"}]_vars

\* C26: a sweep that re-reads a game whose price in the list was 0, or whose
\* refreshed current price is 0, NaN or gone with the row, skips the game:
\* nothing is sent and no row changes, the mark included.
C26_ZeroPriceSkipped ==
  [][\A s \in SweepIds :
       LET g == CurId(sweep[s]) IN
         ( /\ ReadStep(s)
           /\ \/ ~games[g].exists
              \/ Falsy(OldPrice(sweep[s]))
              \/ Falsy(games[g].currentPrice) )
         => /\ sweep'[s].results = Append(sweep[s].results, "skipped")
            /\ sweep'[s].pc \in {"load", "done"}
            /\ games' = games
            /\ delivered' = delivered]_vars

\* The page fell from 100 to 0, the sweep stored the 0 and skipped the game.
C26_Witness ==
  \E s \in SweepIds :
    /\ sweep[s].pc = "done"
    /\ sweep[s].results = <<"skipped">>
    /\ page[1] = Plain(0)
    /\ drops[1] = 1
    /\ games[1].currentPrice = 0
    /\ games[1].lastChecked = now
    /\ ~games[1].onSale
    /\ \A d \in Dests : delivered[1][d] = 0

\* C27: the table never holds two rows for one (chatId, threadId); a second
\* setNotificationThread for a pair leaves the table as the first left it; and
\* removeNotificationSettings for a pair that has no row throws and leaves the
\* table as it is.
C27_RegistrationIdempotent ==
  /\ \A i, j \in 1..Len(settings) : settings[i] = settings[j] => i = j
  /\ \A d \in Dests :
       Threaded(d) =>
         /\ upsertSettings(upsertSettings(settings, d), d) = upsertSettings(settings, d)
         /\ Registered(upsertSettings(settings, d)) = Registered(settings) \cup {d}
         /\ d \notin Registered(settings) =>
              /\ deleteSettings(settings, d).error
              /\ deleteSettings(settings, d).table = settings

\* The first thread was removed and another one registered.
C27_Witness ==
  /\ Len(settings) = 1
  /\ settings[1] # 1
  /\ Threaded(settings[1])
  /\ deleteSettings(settings, 1).error
  /\ upsertSettings(settings, settings[1]) = settings

\* A text or a category button of u is handled.
FromUser(u) ==
  \/ \E t \in TextInputs, titled \in BOOLEAN : handleMessage(u, t, titled)
  \/ \E o \in {Plain(100)}, r \in Outcomes :
       handleCategorySelection(u, o, r.progress, r.created, r.okSent, r.errSent)

\* C28: gameService.addGame is called only by the category callback, and only
\* while the session holds a gameUrl, its step is 'category', awaitingCategories
\* is set and the user who pressed the button is the user whose /add began the
\* conversation; a text or a category button of any other user changes neither
\* the session nor the calls of addGame.
C28_AddOnlyByIssuer ==
  /\ [](\A k \in 1..Len(addCalls) :
          LET c == addCalls[k] IN
            /\ c.session.gameUrl # <<>>
            /\ c.game.url = c.session.gameUrl
            /\ c.session.step = "category"
            /\ c.session.awaitingCategories
            /\ c.user = c.issuer)
  /\ [][/\ addCalls' # addCalls => \E u \in Users : FromUser(u)
        /\ session' # session \/ addCalls' # addCalls =>
             \A u \in Users :
               session.userId # Undefined /\ u # session.userId => ~FromUser(u)]_vars

\* Two users began a conversation each, and a game was handed to addGame.
C28_Witness ==
  /\ Len(flows) = 2
  /\ flows[1] # flows[2]
  /\ addCalls # <<>>
  /\ addCalls[1].user = addCalls[1].issuer

\* No conversation is running: step is null or undefined.
Idle(s) == s.step \in {"null", "undefined"}

\* C29: between the handlers the flags follow the step: awaitingGameUrl is set
\* exactly when step is 'url', awaitingPlayers exactly when it is 'players',
\* awaitingCategories exactly when it is 'category'; and the step of a
\* conversation, which /add begins at 'url', only moves from 'url' to
\* 'players', from 'players' to 'category' and from 'category' to idle, or to
\* idle from anywhere by the cancel button.
C29_StepAndFlagsAgree ==
  /\ []( /\ session.awaitingGameUrl <=> session.step = "url"
         /\ session.awaitingPlayers <=> session.step = "players"
         /\ session.awaitingCategories <=> session.step = "category" )
  /\ [][session'.step # session.step =>
          \/ \E u \in Users : handleAdd(u) /\ session'.step = "url"
          \/ session.step = "url" /\ session'.step = "players"
          \/ session.step = "players" /\ session'.step = "category"
          \/ session.step = "category" /\ Idle(session')
          \/ \E u \in Senders : handleCancelAdd(u, TRUE) /\ Idle(session')]_vars

\* One conversation went through every step: its game was handed to addGame
\* and the session is idle again.
C29_Witness ==
  /\ Len(flows) = 1
  /\ Len(addCalls) = 1
  /\ addCalls[1].session.players = 2
  /\ session.step = "null"

\* C30: a conversation hands its game to addGame at most once: when
\* handleCategorySelection has called addGame and has ended, the session is
\* idle, whatever became of addGame and of the Telegram calls after it, so no
\* two calls of addGame belong to one conversation.
C30_OneAddPerFlow ==
  /\ \A k \in 1..Len(addCalls) : addCalls[k].flow = Len(flows) => Idle(session)
  /\ \A j, k \in 1..Len(addCalls) : j # k => addCalls[j].flow # addCalls[k].flow
====
